---- MODULE Spec2Model ----
(***************************************************************************)
(* The form controller of react-advanced-form (src/components/Form.jsx):   *)
(* the field tree, the three time-buffered event streams (fieldRegister,   *)
(* fieldUnregister, applyStatePatch), the state patch reconciler, the      *)
(* form-level validation and the submit sequence.                          *)
(*                                                                         *)
(* One thread of control: every action below is one run-to-completion      *)
(* piece of JavaScript (an event emission with its synchronous listeners,  *)
(* the close of one buffering window with its handler, the resumption of   *)
(* an async function after an await).  setState is called outside the      *)
(* host's batching (timers, promise continuations), where it commits       *)
(* synchronously and runs its callback before it returns.                  *)
(***************************************************************************)
EXTENDS Naturals, Sequences, FiniteSets, TLC

\* ------------------------------------------------------------------ bounds
\* Events and suspended handlers the controller may hold at one time: the
\* events of the open buffering windows together with the handlers waiting
\* at an await.
MaxInFlight == 3

\* Validators of one chain handed to mapToSingleResult.
MaxChain == 2

\* Operations (handler and method calls) of a run that limits them; fields
\* mount and unmount without limit.
MaxOps == 2

\* Field paths of the form, the raw values a field may hold, and the paths
\* the rule set declares required (an empty value is rejected there).
Paths == {"a", "b"}
Values == {"", "x"}
RequiredPaths == {"b"}

VARIABLES
  fields,            \* this.state.fields: the committed field tree
  registerLive,      \* the fieldRegister subscription still delivers
  fieldRegisterBuf,  \* fieldRegister events of the open window
  fieldUnregisterBuf,\* fieldUnregister events of the open window
  applyStatePatchBuf,\* applyStatePatch events of the open window
  mounted,           \* per path: the field component's own view
  misuse,            \* two components were mounted on one path
  pendingBlur,       \* blur handlers suspended at their await
  pendingValidations,\* validateField calls suspended at their await
  nextWindow,        \* the buffering window that closes next
  validation,        \* the form-level validate() call in flight
  submission,        \* the submit() call in flight, and the hooks it fired
  dirty,             \* this.state.dirty
  tornDown,          \* componentWillUnmount has run
  pendingChange,     \* change handlers suspended at their await, in call order
  changed,           \* per path: the value its latest change event or
                     \* setValues call gave it
  combine,           \* a run of mapToSingleResult over a validator list
  opsLeft,           \* operations the run may still start
  last               \* what the step just taken did (observation only)

vars == <<fields, registerLive, fieldRegisterBuf, fieldUnregisterBuf,
          applyStatePatchBuf, mounted, misuse, pendingBlur,
          pendingValidations, nextWindow, validation, submission, dirty,
          tornDown, pendingChange, changed, combine, opsLeft,
          last>>

\* What the controller holds at the moment (see MaxInFlight).
InFlight ==
  Len(fieldRegisterBuf) + Len(fieldUnregisterBuf) + Len(applyStatePatchBuf)
    + Cardinality(pendingBlur) + Cardinality(pendingValidations)
    + Len(pendingChange)

\* ------------------------------------------------------- records and trees
\* A tree is a function from the registered paths to their records; a
\* record chunk is a record that has only some of the keys.
EmptyTree == [p \in {} |-> 0]
EmptyChunk == [k \in {} |-> 0]

\* The record a field component hands over on mount.
FieldProps(fieldPath, value) ==
  [fieldPath |-> fieldPath, value |-> value, initialValue |-> value,
   focused |-> FALSE, touched |-> FALSE, dirty |-> FALSE,
   validated |-> FALSE, expected |-> TRUE, errors |-> <<>>]

\* R.hasPath
HasPath(fieldPath, tree) == fieldPath \in DOMAIN tree

\* R.path: <<>> stands for undefined, <<r>> for the record r.
Path(fieldPath, tree) ==
  IF fieldPath \in DOMAIN tree THEN <<tree[fieldPath]>> ELSE <<>>

\* R.pathOr
PathOr(default, fieldPath, tree) ==
  IF fieldPath \in DOMAIN tree THEN tree[fieldPath] ELSE default

\* R.assocPath
AssocPath(fieldPath, value, tree) ==
  [p \in DOMAIN tree \cup {fieldPath} |->
     IF p = fieldPath THEN value ELSE tree[p]]

\* R.mergeDeepLeft on two chunks: the left one wins on the keys of both.
MergeDeepLeft(l, r) ==
  [k \in DOMAIN l \cup DOMAIN r |-> IF k \in DOMAIN l THEN l[k] ELSE r[k]]

\* R.mergeDeepRight on two trees: path by path, the right one wins key by key.
MergeDeepRight(l, r) ==
  [p \in DOMAIN l \cup DOMAIN r |->
     IF p \in DOMAIN l /\ p \in DOMAIN r THEN MergeDeepLeft(r[p], l[p])
     ELSE IF p \in DOMAIN r THEN r[p] ELSE l[p]]

\* ------------------------------------------------------------- validation
\* The rule set: a required field rejects the empty value.
RuleResult(fieldProps) ==
  LET expected == ~(fieldProps.fieldPath \in RequiredPaths /\ fieldProps.value = "")
  IN [expected |-> expected,
      rejectedRules |-> IF expected THEN <<>> ELSE <<"missing">>]

\* utils/handlers/validateField: the validation patch of a record.  A record
\* validated already is not evaluated again unless forced; it keeps its
\* validity.
ValidationChunk(fieldProps, force) ==
  IF force \/ ~fieldProps.validated
    THEN LET res == RuleResult(fieldProps)
         IN [validated |-> TRUE, expected |-> res.expected,
             errors |-> res.rejectedRules,
             touched |-> fieldProps.touched \/ ~res.expected]
    ELSE [validated |-> fieldProps.validated, expected |-> fieldProps.expected,
          errors |-> fieldProps.errors, touched |-> fieldProps.touched]

\* ------------------------------------------------------ state patch reconciler
\* A state patch is [fieldPath, chunk, callback]; callback names the closure
\* the emitting handler attached ("none" when it attached none).
StatePatch(fieldPath, chunk, callback) ==
  [fieldPath |-> fieldPath, chunk |-> chunk, callback |-> callback]

\* As FilterExisting, without the filter: every patch is kept.
FilterNothing(statePatches, prevFields) == statePatches

\* Form.jsx 188-193: the patches of fields that are still in the tree.
FilterExisting(statePatches, prevFields) ==
  SelectSeq(statePatches, LAMBDA e : HasPath(e.fieldPath, prevFields))

\* As StitchReducer, with the arguments of the merge the other way round:
\* the chunk stitched so far wins over the patch that arrives.
StitchReducerEarlierWins(entry, keyPath, existingChunks) ==
  MergeDeepLeft(PathOr(EmptyChunk, keyPath, existingChunks), entry.chunk)

\* Form.jsx 182-184: the chunk stitched at keyPath for one more patch.
StitchReducer(entry, keyPath, existingChunks) ==
  MergeDeepLeft(entry.chunk, PathOr(EmptyChunk, keyPath, existingChunks))

\* utils/stitchWith: fold the list into a tree, left to right.
RECURSIVE StitchWith(_, _)
StitchWith(list, acc) ==
  IF list = <<>> THEN acc
  ELSE LET entry == Head(list)
           keyPath == entry.fieldPath
       IN StitchWith(Tail(list),
                     AssocPath(keyPath, StitchReducer(entry, keyPath, acc), acc))

\* As NextFields, with the arguments of the merge over the previous tree the
\* other way round: the previous tree wins over the patches.
NextFieldsPrevWins(prevFields, statePatches) ==
  MergeDeepRight(StitchWith(FilterExisting(statePatches, prevFields), EmptyTree),
                 prevFields)

\* Form.jsx 174-194
NextFields(prevFields, statePatches) ==
  MergeDeepRight(prevFields,
                 StitchWith(FilterExisting(statePatches, prevFields), EmptyTree))

\* The closures attached to patches (Form.jsx 455-460, 489-496, 542-547) read
\* a key of the record they are given: they throw when given undefined.
CallbackThrows(callback, record) ==
  callback \in {"onFocus", "onChange", "onBlur"} /\ record = <<>>

\* Form.jsx 204-208: statePatches.forEach.  The calls made, in order; a
\* callback that throws ends the loop.
RECURSIVE RunCallbacks(_, _, _)
RunCallbacks(statePatches, i, nextFields) ==
  IF i > Len(statePatches) THEN <<>>
  ELSE LET e == statePatches[i]
           record == Path(e.fieldPath, nextFields)
           threw == CallbackThrows(e.callback, record)
           call == [index |-> i, fieldPath |-> e.fieldPath,
                    callback |-> e.callback, record |-> record,
                    fields |-> nextFields, threw |-> threw]
       IN IF e.callback = "none" THEN RunCallbacks(statePatches, i + 1, nextFields)
          ELSE IF threw THEN <<call>>
          ELSE <<call>> \o RunCallbacks(statePatches, i + 1, nextFields)

\* As PromiseState, without the catch: the promise resolves although the
\* commit threw.
PromiseStateNoReject(prevFields, nextFields, commitThrows) ==
  [settled |-> "resolved",
   fields |-> IF commitThrows THEN prevFields ELSE nextFields]

\* Form.jsx 154-162: the promise of a state commit.  commitThrows is the host
\* rejecting the update inside setState; the tree of record is then untouched.
PromiseState(prevFields, nextFields, commitThrows) ==
  IF commitThrows
    THEN [settled |-> "rejected", fields |-> prevFields]
    ELSE [settled |-> "resolved", fields |-> nextFields]

\* The observation of a step that ran no handler of interest.
Idle == [op |-> "none"]

\* Form.jsx 196-209: what the promise of applyStatePatch resolves with.  The
\* function given to then returns nothing: <<>>, undefined, whatever the
\* committed tree is.
ResolvedWith(nextFields) == <<>>

\* Form.jsx 171-210: commit, then the callbacks.
ApplyStatePatch(statePatches, commitThrows) ==
  LET prevFields == fields
      commit == PromiseState(prevFields, NextFields(prevFields, statePatches),
                             commitThrows)
      calls == IF commit.settled = "resolved"
                 THEN RunCallbacks(statePatches, 1, commit.fields)
                 ELSE <<>>
      threw == calls # <<>> /\ calls[Len(calls)].threw
  IN /\ fields' = commit.fields
     /\ last' = [op |-> "applyStatePatch", batch |-> statePatches,
                 prev |-> prevFields, next |-> commit.fields,
                 commitThrows |-> commitThrows,
                 outcome |-> IF commit.settled = "rejected" \/ threw
                               THEN "rejected" ELSE "resolved",
                 resolved |-> ResolvedWith(commit.fields),
                 calls |-> calls]

\* ------------------------------------------------------------ registration
\* A fieldRegister event: the props and the options of the mounting field.
Registration(fieldPath, value, allowMultiple, veto, shouldValidateOnMount) ==
  [fieldPath |-> fieldPath, value |-> value, allowMultiple |-> allowMultiple,
   veto |-> veto, shouldValidateOnMount |-> shouldValidateOnMount]

\* As RegisterField, without the assertion on a path that holds a record.
RegisterFieldUnguarded(flds, reg) ==
  IF reg.veto
    THEN [outcome |-> "vetoed", fieldPath |-> reg.fieldPath, fields |-> flds,
          beforeRegister |-> TRUE, registeredEvent |-> FALSE,
          validateOnMount |-> FALSE]
    ELSE [outcome |-> "registered", fieldPath |-> reg.fieldPath,
          fields |-> AssocPath(reg.fieldPath,
                               FieldProps(reg.fieldPath, reg.value), flds),
          beforeRegister |-> TRUE, registeredEvent |-> TRUE,
          validateOnMount |-> reg.shouldValidateOnMount]

\* Form.jsx 268-371: one registerField call on the tree flds.  beforeRegister
\* either vetoes the mount or hands the props back.
RegisterField(flds, reg) ==
  LET fieldAlreadyExists == Path(reg.fieldPath, flds) # <<>>
      fieldProps == FieldProps(reg.fieldPath, reg.value)
  IN IF fieldAlreadyExists /\ ~reg.allowMultiple
       THEN [outcome |-> "threw", fieldPath |-> reg.fieldPath, fields |-> flds,
             beforeRegister |-> FALSE, registeredEvent |-> FALSE,
             validateOnMount |-> FALSE]
     ELSE IF reg.veto
       THEN [outcome |-> "vetoed", fieldPath |-> reg.fieldPath, fields |-> flds,
             beforeRegister |-> TRUE, registeredEvent |-> FALSE,
             validateOnMount |-> FALSE]
     ELSE [outcome |-> "registered", fieldPath |-> reg.fieldPath,
           fields |-> AssocPath(reg.fieldPath, fieldProps, flds),
           beforeRegister |-> TRUE, registeredEvent |-> TRUE,
           validateOnMount |-> reg.shouldValidateOnMount]

\* Form.jsx 123: pendingFields.forEach(this.registerField).  The results of
\* the calls made, in order; a call that throws ends the loop.
RECURSIVE RegisterAll(_, _)
RegisterAll(flds, pendingFields) ==
  IF pendingFields = <<>> THEN <<>>
  ELSE LET res == RegisterField(flds, Head(pendingFields))
       IN IF res.outcome = "threw" THEN <<res>>
          ELSE <<res>> \o RegisterAll(res.fields, Tail(pendingFields))

\* pendingFields.forEach(this.registerField) on a controller that is
\* unmounted: setState is without effect there and its callback is not run,
\* so every call sees the tree as it was left.
RECURSIVE RegisterAllUnmounted(_, _)
RegisterAllUnmounted(flds, pendingFields) ==
  IF pendingFields = <<>> THEN <<>>
  ELSE LET res == RegisterField(flds, Head(pendingFields))
       IN IF res.outcome = "threw" THEN <<res>>
          ELSE <<res>> \o RegisterAllUnmounted(flds, Tail(pendingFields))

\* The observation of a handler called with the events of a window after
\* componentWillUnmount.
LateDelivery(handler, batch, threw) ==
  [op |-> "lateDelivery", handler |-> handler, batch |-> batch, threw |-> threw]

\* Form.jsx 377-386: the tree without the paths of fieldsList.
UnregisterFields(flds, fieldsList) ==
  LET stitchedFields == { fieldsList[i] : i \in 1..Len(fieldsList) }
  IN [p \in { q \in DOMAIN flds : q \notin stitchedFields } |-> flds[p]]

\* A validateField call suspended at its await (Form.jsx 579): the props it
\* validates, who called it, and its force and shouldUpdateFields arguments
\* (Form.jsx 564, 568: their defaults).
PendingValidation(fieldProps, owner) ==
  [fieldProps |-> fieldProps, owner |-> owner, force |-> FALSE,
   shouldUpdateFields |-> TRUE]

\* --------------------------------------------------------------- validate()
\* The order in which the leaves of a tree are listed.
PathOrder == <<"a", "b">>

\* utils/getLeavesWhich: the records of the tree that match, in tree order.
\* A predicate is the set of paths it accepts.
RECURSIVE GetLeavesWhich(_, _, _)
GetLeavesWhich(predicate, tree, i) ==
  IF i > Len(PathOrder) THEN <<>>
  ELSE LET p == PathOrder[i]
           rest == GetLeavesWhich(predicate, tree, i + 1)
       IN IF p \in DOMAIN tree /\ p \in predicate THEN <<tree[p]>> \o rest
          ELSE rest

\* Form.jsx 593: what validateField returns.
NextFieldState(fieldStatePatch, fieldProps) ==
  MergeDeepLeft(fieldStatePatch, fieldProps)

\* As IsFormValid, with some in place of every.
IsFormValidSome(validatedFields) ==
  \E i \in 1..Len(validatedFields) : validatedFields[i].expected = TRUE

\* Form.jsx 619
IsFormValid(validatedFields) ==
  \A i \in 1..Len(validatedFields) : validatedFields[i].expected = TRUE

\* Form.jsx 627-630
InvalidFields(validatedFields) ==
  SelectSeq(validatedFields, LAMBDA f : f.expected = FALSE)

NoValidation == [pc |-> "idle"]

\* Form.jsx 605-618: validate() up to its await, called when the tree of
\* record is tree.
StartValidateOn(tree, predicate, caller) ==
  LET flattenedFields == GetLeavesWhich(predicate, tree, 1)
  IN /\ InFlight + Len(flattenedFields) <= MaxInFlight
     /\ validation' = [pc |-> "awaiting", caller |-> caller,
                       targets |-> flattenedFields, results |-> EmptyTree]
     /\ pendingValidations' = pendingValidations \cup
          { PendingValidation(flattenedFields[i], "form") :
              i \in 1..Len(flattenedFields) }

StartValidate(predicate, caller) == StartValidateOn(fields, predicate, caller)

\* ------------------------------------------------------------------ submit
NoSubmission ==
  [pc |-> "idle", valid |-> FALSE, hooks |-> <<>>, settled |-> "none",
   result |-> "none"]

\* Form.jsx 826-837: the chain on the action's pending result.  The hooks
\* fired, in order, and the state of the promise submit returns.  A hook that
\* throws rejects the link of the chain it runs in.
SubmitChain(fulfilled, throwing) ==
  LET afterThen == IF fulfilled
                     THEN [hooks |-> <<"onSubmitted">>,
                           ok |-> "onSubmitted" \notin throwing]
                     ELSE [hooks |-> <<>>, ok |-> FALSE]
      afterCatch == IF afterThen.ok THEN afterThen
                    ELSE [hooks |-> Append(afterThen.hooks, "onSubmitFailed"),
                          ok |-> "onSubmitFailed" \notin throwing]
      afterEnd == IF afterCatch.ok
                    THEN [hooks |-> Append(afterCatch.hooks, "onSubmitEnd"),
                          ok |-> "onSubmitEnd" \notin throwing]
                    ELSE afterCatch
  IN afterEnd

\* ------------------------------------------------- combining validator results
\* The rule identifiers validators reject with.
Rules == {"r1", "r2"}

\* A ValidationResult.  JavaScript values are written as strings here, so
\* that undefined can stand where a boolean is expected.
ValidationResults ==
  {[expected |-> "true", rejectedRules |-> <<>>]}
    \cup { [expected |-> "false", rejectedRules |-> <<r>>] : r \in Rules }

\* What a validator returns: one result, a list of results, or a promise of
\* one result (results is then what the promise resolves to).
ValidatorReturns ==
  { [kind |-> k, results |-> <<r>>] : k \in {"result", "promise"},
                                       r \in ValidationResults }
    \cup {[kind |-> "list", results |-> <<>>]}
    \cup { [kind |-> "list", results |-> <<r1, r2>>] :
             r1 \in ValidationResults, r2 \in ValidationResults }

\* Form.jsx 877: the list reduceValidationResults is given for one validator.
\* A promise is not an array: it goes into the list as it is, and reading
\* expected or rejectedRules from it yields undefined; concat(undefined)
\* appends undefined.
ValidatorResultArr(validatorResult) ==
  IF validatorResult.kind = "promise"
    THEN <<[expected |-> "undefined", rejectedRules |-> <<"undefined">>]>>
    ELSE validatorResult.results

\* Form.jsx 863-869
RECURSIVE ReduceValidationResults(_, _)
ReduceValidationResults(initialAcc, results) ==
  IF results = <<>> THEN initialAcc
  ELSE LET result == Head(results)
           acc == [expected |-> IF initialAcc.expected = "true"
                                  THEN result.expected
                                  ELSE initialAcc.expected,
                   rejectedRules |-> initialAcc.rejectedRules \o result.rejectedRules]
       IN ReduceValidationResults(acc, Tail(results))

\* Form.jsx 889-892: the accumulator mapToSingleResult starts from.
InitialAcc == [expected |-> "true", rejectedRules |-> <<>>]

\* No validator list is being combined.
NoCombine == [chain |-> <<>>, invoked |-> 0, acc |-> InitialAcc]

\* Form.jsx 875-888: the next validator of the chain is invoked and its
\* result reduced into the accumulator.
MapToSingleResultStep ==
  /\ combine.invoked < Len(combine.chain)
  /\ LET validatorResult == combine.chain[combine.invoked + 1]
     IN combine' = [combine EXCEPT
                      !.invoked = @ + 1,
                      !.acc = ReduceValidationResults(
                                @, ValidatorResultArr(validatorResult))]
  /\ last' = Idle
  /\ UNCHANGED <<fields, registerLive, fieldRegisterBuf, fieldUnregisterBuf,
                 applyStatePatchBuf, mounted, misuse, pendingBlur,
                 pendingValidations, nextWindow, validation, submission,
                 dirty, tornDown, pendingChange, changed, opsLeft>>

\* ------------------------------------------------------------------- Init
InitForm ==
  /\ fields = EmptyTree
  /\ registerLive = TRUE
  /\ fieldRegisterBuf = <<>>
  /\ fieldUnregisterBuf = <<>>
  /\ applyStatePatchBuf = <<>>
  /\ mounted = [p \in Paths |-> "no"]
  /\ misuse = FALSE
  /\ pendingBlur = {}
  /\ pendingValidations = {}
  /\ nextWindow = "fieldRegister"
  /\ validation = NoValidation
  /\ submission = NoSubmission
  /\ dirty = FALSE
  /\ tornDown = FALSE
  /\ pendingChange = <<>>
  /\ changed = [p \in Paths |-> "none"]
  /\ last = Idle

\* A run that does not limit its operations.
NoLimit == MaxOps + 1

\* An operation starts: a run that limits its operations has one less left.
Spend ==
  /\ opsLeft > 0
  /\ opsLeft' = IF opsLeft = NoLimit THEN NoLimit ELSE opsLeft - 1

Init ==
  /\ InitForm
  /\ combine = NoCombine
  /\ opsLeft = NoLimit

\* ---------------------------------------------------------------- actions
\* A field component mounts and emits fieldRegister (buffered).  Nothing
\* collects the event once the subscription has ended or the listeners have
\* been removed.
EmitFieldRegister(fieldPath, value, allowMultiple, veto, shouldValidateOnMount) ==
  /\ mounted[fieldPath] = "no"
  /\ InFlight < MaxInFlight
  /\ fieldRegisterBuf' =
       IF registerLive /\ ~tornDown
         THEN Append(fieldRegisterBuf,
                     Registration(fieldPath, value, allowMultiple, veto,
                                  shouldValidateOnMount))
         ELSE fieldRegisterBuf
  /\ mounted' = [mounted EXCEPT ![fieldPath] = IF veto THEN "vetoed" ELSE "yes"]
  /\ last' = Idle
  /\ UNCHANGED <<dirty, tornDown, pendingChange, changed, combine, opsLeft>>
  /\ UNCHANGED <<fields, registerLive, fieldUnregisterBuf, applyStatePatchBuf,
                 misuse, pendingBlur, pendingValidations, nextWindow,
                 validation, submission>>

\* A second component mounts on a path that has a mounted component already
\* (two fields of one name): it emits fieldRegister as well.
EmitDuplicateRegister(fieldPath, value, allowMultiple) ==
  /\ mounted[fieldPath] # "no"
  /\ InFlight < MaxInFlight
  /\ fieldRegisterBuf' =
       IF registerLive /\ ~tornDown
         THEN Append(fieldRegisterBuf,
                     Registration(fieldPath, value, allowMultiple, FALSE, FALSE))
         ELSE fieldRegisterBuf
  /\ misuse' = TRUE
  /\ last' = Idle
  /\ UNCHANGED <<dirty, tornDown, pendingChange, changed, combine, opsLeft>>
  /\ UNCHANGED <<fields, registerLive, fieldUnregisterBuf, applyStatePatchBuf,
                 mounted, pendingBlur, pendingValidations, nextWindow,
                 validation, submission>>

\* The fieldRegister window closes: Form.jsx 121-123.  A handler that throws
\* ends the subscription (the subscriber of the observable unsubscribes).
\* The timer of the window outlives the listeners of the emitter.
CloseRegisterWindow ==
  /\ nextWindow = "fieldRegister"
  /\ nextWindow' = "fieldUnregister"
  /\ IF registerLive /\ fieldRegisterBuf # <<>> /\ tornDown
       THEN LET results == RegisterAllUnmounted(fields, fieldRegisterBuf)
            IN /\ registerLive' = (results[Len(results)].outcome # "threw")
               /\ last' = LateDelivery("registerField", fieldRegisterBuf,
                                       ~registerLive')
               /\ UNCHANGED <<fields, pendingValidations>>
     ELSE IF registerLive /\ fieldRegisterBuf # <<>>
       THEN LET results == RegisterAll(fields, fieldRegisterBuf)
                final == results[Len(results)]
                started ==
                  { PendingValidation(
                      FieldProps(fieldRegisterBuf[i].fieldPath,
                                 fieldRegisterBuf[i].value), "mount") :
                      i \in { j \in 1..Len(results) : results[j].validateOnMount } }
            IN /\ fields' = final.fields
               /\ registerLive' = (final.outcome # "threw")
               /\ pendingValidations' = pendingValidations \cup started
               /\ last' = [op |-> "registerFields", batch |-> fieldRegisterBuf,
                           prev |-> fields, next |-> final.fields,
                           results |-> results, started |-> started]
       ELSE /\ last' = Idle
            /\ UNCHANGED <<fields, registerLive, pendingValidations>>
  /\ fieldRegisterBuf' = <<>>
  /\ UNCHANGED <<dirty, tornDown, pendingChange, changed, combine, opsLeft>>
  /\ UNCHANGED <<fieldUnregisterBuf, applyStatePatchBuf, mounted, misuse,
                 pendingBlur, validation, submission>>

\* A field component unmounts and emits fieldUnregister (buffered).
EmitFieldUnregister(fieldPath) ==
  /\ mounted[fieldPath] # "no"
  /\ InFlight < MaxInFlight
  /\ fieldUnregisterBuf' = IF tornDown THEN fieldUnregisterBuf
                           ELSE Append(fieldUnregisterBuf, fieldPath)
  /\ mounted' = [mounted EXCEPT ![fieldPath] = "no"]
  /\ last' = Idle
  /\ UNCHANGED <<dirty, tornDown, pendingChange, changed, combine, opsLeft>>
  /\ UNCHANGED <<fields, registerLive, fieldRegisterBuf, applyStatePatchBuf,
                 misuse, pendingBlur, pendingValidations, nextWindow,
                 validation, submission>>

\* The fieldUnregister window closes: Form.jsx 129-134.  An empty window
\* calls no handler.
CloseUnregisterWindow ==
  /\ nextWindow = "fieldUnregister"
  /\ nextWindow' = "applyStatePatch"
  /\ fields' = IF fieldUnregisterBuf # <<>> /\ ~tornDown
                 THEN UnregisterFields(fields, fieldUnregisterBuf)
                 ELSE fields
  /\ last' = IF fieldUnregisterBuf # <<>> /\ tornDown
               THEN LateDelivery("unregisterFields", fieldUnregisterBuf, FALSE)
             ELSE IF fieldUnregisterBuf # <<>>
               THEN [op |-> "unregisterFields", batch |-> fieldUnregisterBuf,
                     prev |-> fields]
               ELSE Idle
  /\ fieldUnregisterBuf' = <<>>
  /\ UNCHANGED <<dirty, tornDown, pendingChange, changed, combine, opsLeft>>
  /\ UNCHANGED <<registerLive, fieldRegisterBuf, applyStatePatchBuf, mounted,
                 misuse, pendingBlur, pendingValidations, validation,
                 submission>>

\* emit('applyStatePatch', fieldPath, chunk, callback): the event has no
\* listener once the listeners have been removed.
EmitPatch(buf, fieldPath, chunk, callback) ==
  IF tornDown THEN buf
  ELSE Append(buf, StatePatch(fieldPath, chunk, callback))

\* Form.jsx 258-261
WithRegisteredField(fieldPath) == Path(fieldPath, fields) # <<>>

\* Form.jsx 447-462
HandleFieldFocus(fieldPath) ==
  /\ Spend
  /\ ~tornDown
  /\ mounted[fieldPath] = "yes"
  /\ WithRegisteredField(fieldPath)
  /\ InFlight < MaxInFlight
  /\ applyStatePatchBuf' =
       EmitPatch(applyStatePatchBuf, fieldPath, [focused |-> TRUE], "onFocus")
  /\ last' = Idle
  /\ UNCHANGED <<dirty, tornDown, pendingChange, changed, combine>>
  /\ UNCHANGED <<fields, registerLive, fieldRegisterBuf, fieldUnregisterBuf,
                 mounted, misuse, pendingBlur, pendingValidations, nextWindow,
                 validation, submission>>

\* utils/handlers/handleFieldBlur: the blur and the validation of the record
\* in one chunk.
BlurChunk(fieldProps) ==
  MergeDeepLeft(ValidationChunk([fieldProps EXCEPT !.touched = TRUE], FALSE),
                [focused |-> FALSE, touched |-> TRUE])

\* Form.jsx 522-525: the blur handler up to its await.
HandleFieldBlur(fieldPath) ==
  /\ Spend
  /\ ~tornDown
  /\ mounted[fieldPath] = "yes"
  /\ WithRegisteredField(fieldPath)
  /\ InFlight < MaxInFlight
  /\ \A b \in pendingBlur : b.fieldPath # fieldPath
  /\ pendingBlur' = pendingBlur \cup
       {StatePatch(fieldPath, BlurChunk(fields[fieldPath]), "onBlur")}
  /\ last' = Idle
  /\ UNCHANGED <<dirty, tornDown, pendingChange, changed, combine>>
  /\ UNCHANGED <<fields, registerLive, fieldRegisterBuf, fieldUnregisterBuf,
                 applyStatePatchBuf, mounted, misuse, pendingValidations,
                 nextWindow, validation, submission>>

\* Form.jsx 538-548: the blur handler after its await.
ResumeFieldBlur(patch) ==
  /\ patch \in pendingBlur
  /\ pendingBlur' = pendingBlur \ {patch}
  /\ applyStatePatchBuf' =
       EmitPatch(applyStatePatchBuf, patch.fieldPath, patch.chunk, patch.callback)
  /\ last' = Idle
  /\ UNCHANGED <<dirty, tornDown, pendingChange, changed, combine, opsLeft>>
  /\ UNCHANGED <<fields, registerLive, fieldRegisterBuf, fieldUnregisterBuf,
                 mounted, misuse, pendingValidations, nextWindow, validation,
                 submission>>

\* Form.jsx 561-579: validateField called by a user of the controller with
\* explicit props, up to its await.  The props validated are those of the
\* tree unless forceProps is set or the tree has none.
ValidateFieldCall(explicitFieldProps, force, forceProps, shouldUpdateFields) ==
  /\ Spend
  /\ InFlight < MaxInFlight
  /\ LET inTree == Path(explicitFieldProps.fieldPath, fields)
         fieldProps == IF forceProps \/ inTree = <<>> THEN explicitFieldProps
                       ELSE inTree[1]
     IN pendingValidations' = pendingValidations \cup
          {[PendingValidation(fieldProps, "caller") EXCEPT
              !.force = force, !.shouldUpdateFields = shouldUpdateFields]}
  /\ last' = Idle
  /\ UNCHANGED <<fields, registerLive, fieldRegisterBuf, fieldUnregisterBuf,
                 applyStatePatchBuf, mounted, misuse, pendingBlur, nextWindow,
                 validation, submission, dirty, tornDown, pendingChange,
                 changed, combine>>

\* As ResumeValidateField, with the patch committed by validateField itself.
ResumeValidateFieldCommits(v) ==
  /\ v \in pendingValidations
  /\ LET fieldStatePatch == ValidationChunk(v.fieldProps, v.force)
         fieldPath == v.fieldProps.fieldPath
     IN /\ fields' = NextFields(fields, <<StatePatch(fieldPath, fieldStatePatch, "none")>>)
        /\ last' = [op |-> "validateField", args |-> v,
                    returned |-> NextFieldState(fieldStatePatch, v.fieldProps)]
  /\ pendingValidations' = pendingValidations \ {v}
  /\ UNCHANGED <<registerLive, fieldRegisterBuf, fieldUnregisterBuf,
                 applyStatePatchBuf, mounted, misuse, pendingBlur, nextWindow,
                 validation, submission, dirty, tornDown, pendingChange,
                 changed, combine, opsLeft>>

\* Form.jsx 587-593: validateField after its await: the patch is emitted when
\* shouldUpdateFields is set, the next record returned to the caller.
ResumeValidateField(v) ==
  /\ v \in pendingValidations
  /\ LET fieldStatePatch == ValidationChunk(v.fieldProps, v.force)
         fieldPath == v.fieldProps.fieldPath
         nextFieldState == NextFieldState(fieldStatePatch, v.fieldProps)
     IN /\ applyStatePatchBuf' =
             IF v.shouldUpdateFields
               THEN EmitPatch(applyStatePatchBuf, fieldPath, fieldStatePatch, "none")
               ELSE applyStatePatchBuf
        /\ validation' =
             IF v.owner = "form"
               THEN [validation EXCEPT !.results =
                       AssocPath(fieldPath, nextFieldState, @)]
               ELSE validation
        /\ last' = [op |-> "validateField", args |-> v,
                    returned |-> nextFieldState]
  /\ pendingValidations' = pendingValidations \ {v}
  /\ UNCHANGED <<dirty, tornDown, pendingChange, changed, combine, opsLeft>>
  /\ UNCHANGED <<fields, registerLive, fieldRegisterBuf, fieldUnregisterBuf,
                 mounted, misuse, pendingBlur, nextWindow, submission>>

\* Form.jsx 407-412: the callback setValues attaches to its patches emits
\* validateField with the committed record and forceProps.  The validations
\* started by the calls of one applyStatePatch; the handler is an async
\* function, which given undefined fails in its promise and starts nothing.
Revalidations(calls) ==
  { PendingValidation(calls[c].record[1], "setValues") :
      c \in { d \in 1..Len(calls) :
                calls[d].callback = "validateField" /\ calls[d].record # <<>> } }

\* As ClosePatchWindow, without the filter of empty batches: the handler is
\* called at the close of every window.
ClosePatchWindowUnfiltered(commitThrows) ==
  /\ nextWindow = "applyStatePatch"
  /\ nextWindow' = "fieldRegister"
  /\ ApplyStatePatch(applyStatePatchBuf, commitThrows)
  /\ applyStatePatchBuf' = <<>>
  /\ UNCHANGED <<dirty, tornDown, pendingChange, changed, combine, opsLeft>>
  /\ UNCHANGED <<registerLive, fieldRegisterBuf, fieldUnregisterBuf, mounted,
                 misuse, pendingBlur, pendingValidations, validation,
                 submission>>

\* The applyStatePatch window closes: Form.jsx 136-141.  An empty window
\* calls no handler.
ClosePatchWindow(commitThrows) ==
  /\ nextWindow = "applyStatePatch"
  /\ nextWindow' = "fieldRegister"
  /\ IF applyStatePatchBuf # <<>> /\ tornDown
       THEN /\ last' = LateDelivery("applyStatePatch", applyStatePatchBuf, FALSE)
            /\ UNCHANGED <<fields, pendingValidations>>
     ELSE IF applyStatePatchBuf # <<>>
       THEN /\ ApplyStatePatch(applyStatePatchBuf, commitThrows)
            /\ pendingValidations' =
                 pendingValidations \cup Revalidations(last'.calls)
       ELSE /\ last' = Idle
            /\ UNCHANGED <<fields, pendingValidations>>
  /\ applyStatePatchBuf' = <<>>
  /\ UNCHANGED <<dirty, tornDown, pendingChange, changed, combine, opsLeft>>
  /\ UNCHANGED <<registerLive, fieldRegisterBuf, fieldUnregisterBuf, mounted,
                 misuse, pendingBlur, validation, submission>>

\* Form.jsx 605-618: a caller of the controller calls validate(predicate).
ValidateCall(predicate) ==
  /\ Spend
  /\ validation.pc = "idle"
  /\ StartValidate(predicate, "caller")
  /\ last' = [op |-> "validateCall", predicate |-> predicate]
  /\ UNCHANGED <<dirty, tornDown, pendingChange, changed, combine>>
  /\ UNCHANGED <<fields, registerLive, fieldRegisterBuf, fieldUnregisterBuf,
                 applyStatePatchBuf, mounted, misuse, pendingBlur, nextWindow,
                 submission>>

\* Form.jsx 618-640: validate() after its await; onInvalid tells whether the
\* form has the onInvalid prop.
ValidateReturn(onInvalid) ==
  /\ validation.pc = "awaiting"
  /\ \A i \in 1..Len(validation.targets) :
       validation.targets[i].fieldPath \in DOMAIN validation.results
  /\ LET validatedFields == [i \in 1..Len(validation.targets) |->
                               validation.results[validation.targets[i].fieldPath]]
         isFormValid == IsFormValid(validatedFields)
     IN /\ last' = [op |-> "validate", targets |-> validation.targets,
                    validatedFields |-> validatedFields,
                    isFormValid |-> isFormValid,
                    hasOnInvalid |-> onInvalid,
                    onInvalidCalls |-> IF ~isFormValid /\ onInvalid
                                         THEN <<InvalidFields(validatedFields)>>
                                         ELSE <<>>]
        /\ submission' =
             IF validation.caller = "submit"
               THEN [submission EXCEPT !.pc = "validated", !.valid = isFormValid]
               ELSE submission
  /\ validation' = NoValidation
  /\ UNCHANGED <<dirty, tornDown, pendingChange, changed, combine, opsLeft>>
  /\ UNCHANGED <<fields, registerLive, fieldRegisterBuf, fieldUnregisterBuf,
                 applyStatePatchBuf, mounted, misuse, pendingBlur,
                 pendingValidations, nextWindow>>

\* Form.jsx 762-778: submit() up to its await of validate().
SubmitCall ==
  /\ submission.pc \notin {"validating", "validated", "pending"}
  /\ validation.pc = "idle"
  /\ StartValidate(Paths, "submit")
  /\ submission' = [NoSubmission EXCEPT !.pc = "validating"]
  /\ last' = [op |-> "validateCall", predicate |-> Paths]
  /\ UNCHANGED <<dirty, tornDown, pendingChange, changed, combine, opsLeft>>
  /\ UNCHANGED <<fields, registerLive, fieldRegisterBuf, fieldUnregisterBuf,
                 applyStatePatchBuf, mounted, misuse, pendingBlur, nextWindow>>

\* As SubmitAfterValidate, without the check of the validation result.
SubmitAfterValidateUnchecked(sub, throwing, thenable) ==
  IF "onSubmitStart" \in throwing
    THEN [sub EXCEPT !.pc = "threw", !.hooks = <<"onSubmitStart">>,
                     !.result = "rejected"]
  ELSE IF ~thenable
    THEN [sub EXCEPT !.pc = "threw", !.hooks = <<"onSubmitStart", "action">>,
                     !.result = "rejected"]
  ELSE [sub EXCEPT !.pc = "pending", !.hooks = <<"onSubmitStart", "action">>]

\* Form.jsx 780-824: submit() after validate(): the abort, or onSubmitStart,
\* the action and the check of what it returned.  throwing: the hooks that
\* throw when called; thenable: the action returns a pending result.
SubmitAfterValidate(sub, throwing, thenable) ==
  IF ~sub.valid
    THEN [sub EXCEPT !.pc = "aborted", !.result = "undefined"]
  ELSE IF "onSubmitStart" \in throwing
    THEN [sub EXCEPT !.pc = "threw", !.hooks = <<"onSubmitStart">>,
                     !.result = "rejected"]
  ELSE IF ~thenable
    THEN [sub EXCEPT !.pc = "threw", !.hooks = <<"onSubmitStart", "action">>,
                     !.result = "rejected"]
  ELSE [sub EXCEPT !.pc = "pending", !.hooks = <<"onSubmitStart", "action">>]

\* submit() resumes after its await of validate().
SubmitResume(throwing, thenable) ==
  /\ submission.pc = "validated"
  /\ submission' = SubmitAfterValidate(submission, throwing, thenable)
  /\ last' = Idle
  /\ UNCHANGED <<dirty, tornDown, pendingChange, changed, combine, opsLeft>>
  /\ UNCHANGED <<fields, registerLive, fieldRegisterBuf, fieldUnregisterBuf,
                 applyStatePatchBuf, mounted, misuse, pendingBlur,
                 pendingValidations, nextWindow, validation>>

\* Form.jsx 826-837: the action's pending result settles.
SettleSubmit(fulfilled, throwing) ==
  /\ submission.pc = "pending"
  /\ LET chain == SubmitChain(fulfilled, throwing)
     IN submission' =
          [submission EXCEPT !.pc = "ended",
                             !.hooks = @ \o chain.hooks,
                             !.settled = IF fulfilled THEN "fulfilled" ELSE "rejected",
                             !.result = IF chain.ok THEN "resolved" ELSE "rejected"]
  /\ last' = Idle
  /\ UNCHANGED <<dirty, tornDown, pendingChange, changed, combine, opsLeft>>
  /\ UNCHANGED <<fields, registerLive, fieldRegisterBuf, fieldUnregisterBuf,
                 applyStatePatchBuf, mounted, misuse, pendingBlur,
                 pendingValidations, nextWindow, validation>>

\* ------------------------------------------------------------------ values
\* The values change events carry, and the mapValue of the fields: b strips
\* the blank a raw value starts with.
NextValues == {"", "y"}
MapValue(fieldPath, raw) ==
  IF fieldPath = "b" /\ raw = " y" THEN "y" ELSE raw

\* fieldUtils.serializeFields: the values of the tree, path by path.
Serialize(tree) == [p \in DOMAIN tree |-> tree[p].value]

\* Form.jsx 743-756, without an onSerialize hook.
SerializeForm == Serialize(fields)

\* utils/handlers/handleFieldChange: the chunk handed to onUpdateValue, the
\* next value with the validity of the record reset.
IntermediateChunk(nextValue) ==
  [value |-> nextValue, dirty |-> TRUE, validated |-> FALSE,
   expected |-> TRUE, errors |-> <<>>]

\* A change handler suspended at its await (Form.jsx 479): the patch it will
\* emit and the dirty flag it read when it started (Form.jsx 477).
PendingChange(fieldPath, fieldStatePatch, wasDirty) ==
  [fieldPath |-> fieldPath, fieldStatePatch |-> fieldStatePatch, dirty |-> wasDirty]

\* Form.jsx 471-501: a fieldChange event of a registered field, up to the
\* await of the handler: onUpdateValue applies the intermediate patch with a
\* direct call of applyStatePatch.
HandleFieldChange(fieldPath, nextValue) ==
  /\ Spend
  /\ ~tornDown
  /\ mounted[fieldPath] = "yes"
  /\ WithRegisteredField(fieldPath)
  /\ InFlight < MaxInFlight
  /\ nextValue # fields[fieldPath].value
  /\ LET intermediateStatePatch == IntermediateChunk(nextValue)
         updated == MergeDeepLeft(intermediateStatePatch, fields[fieldPath])
     IN /\ ApplyStatePatch(
             <<StatePatch(fieldPath, intermediateStatePatch, "onChange")>>, FALSE)
        /\ pendingChange' =
             Append(pendingChange,
                    PendingChange(fieldPath, ValidationChunk(updated, FALSE), dirty))
  /\ changed' = [changed EXCEPT ![fieldPath] = nextValue]
  /\ UNCHANGED <<registerLive, fieldRegisterBuf, fieldUnregisterBuf,
                 applyStatePatchBuf, mounted, misuse, pendingBlur,
                 pendingValidations, nextWindow, validation, submission,
                 dirty, tornDown, combine>>

\* A sequence without its i-th element.
Without(seq, i) == SubSeq(seq, 1, i - 1) \o SubSeq(seq, i + 1, Len(seq))

\* Form.jsx 507-514 and 429-440: the change handler after its await: the
\* patch is emitted, and a handler that started on a pristine form runs
\* handleFirstChange.
ResumeFieldChange(i) ==
  /\ i \in 1..Len(pendingChange)
  /\ LET c == pendingChange[i]
     IN /\ applyStatePatchBuf' =
             EmitPatch(applyStatePatchBuf, c.fieldPath, c.fieldStatePatch, "none")
        /\ dirty' = (dirty \/ ~c.dirty)
        /\ last' = [op |-> "fieldChanged", fieldPath |-> c.fieldPath,
                    onFirstChange |-> ~c.dirty]
  /\ pendingChange' = Without(pendingChange, i)
  /\ UNCHANGED <<fields, registerLive, fieldRegisterBuf, fieldUnregisterBuf,
                 mounted, misuse, pendingBlur, pendingValidations, nextWindow,
                 validation, submission, tornDown, changed, combine, opsLeft>>

\* recordUtils.reset: the record with the value the getter yields and its
\* flags and validity as on mount.
ResetRecord(nextValue, fieldState) ==
  [fieldState EXCEPT !.value = nextValue, !.touched = FALSE, !.dirty = FALSE,
                     !.validated = FALSE, !.expected = TRUE, !.errors = <<>>]

\* As ResetPatches, with the empty value in place of the initial one.
ResetPatchesToEmpty(tree) ==
  LET flat == GetLeavesWhich(Paths, tree, 1)
  IN [i \in 1..Len(flat) |->
        StatePatch(flat[i].fieldPath, ResetRecord("", flat[i]), "none")]

\* Form.jsx 673-680: the patches of reset() with the default predicate.
ResetPatches(tree) ==
  LET flat == GetLeavesWhich(Paths, tree, 1)
  IN [i \in 1..Len(flat) |->
        StatePatch(flat[i].fieldPath,
                   ResetRecord(flat[i].initialValue, flat[i]), "none")]

\* Form.jsx 649-656: the patches of clear() with the default predicate.
ClearPatches(tree) ==
  LET flat == GetLeavesWhich(Paths, tree, 1)
  IN [i \in 1..Len(flat) |->
        StatePatch(flat[i].fieldPath, ResetRecord("", flat[i]), "none")]

\* Form.jsx 684-687: the fields reset() validates afterwards, those whose
\* assertValue accepts their value (a value that is not empty).
AssertsValue(tree) == { p \in DOMAIN tree : tree[p].value # "" }

\* The context a hook is dispatched with.
HookCall(hook, hookFields) == [hook |-> hook, fields |-> hookFields, form |-> "this"]

\* Form.jsx 672-696: reset(predicate).  The patches of the fields that match
\* predicate are applied with a direct call of applyStatePatch; when its
\* promise resolves, validate() is called, on every field of the tree whose
\* assertValue accepts its value, and the onReset hook dispatched with what
\* the promise resolved with.
ResetWhich(predicate, commitThrows) ==
  /\ Spend
  /\ validation.pc = "idle"
  /\ LET prevFields == fields
         fieldsPatch == SelectSeq(ResetPatches(prevFields),
                                  LAMBDA e : e.fieldPath \in predicate)
         commit == PromiseState(prevFields, NextFields(prevFields, fieldsPatch),
                                commitThrows)
         nextFields == ResolvedWith(commit.fields)
     IN /\ fields' = commit.fields
        /\ IF commit.settled = "resolved"
             THEN StartValidateOn(commit.fields, AssertsValue(commit.fields), "reset")
             ELSE UNCHANGED <<validation, pendingValidations>>
        /\ last' = [op |-> "reset", predicate |-> predicate,
                    prev |-> prevFields, next |-> commit.fields,
                    commitThrows |-> commitThrows, resolved |-> nextFields,
                    hooks |-> IF commit.settled = "resolved"
                                THEN <<HookCall("onReset", nextFields)>>
                                ELSE <<>>]
  /\ changed' = IF commitThrows THEN changed
                ELSE [p \in Paths |-> IF p \in predicate THEN "none" ELSE changed[p]]
  /\ UNCHANGED <<registerLive, fieldRegisterBuf, fieldUnregisterBuf,
                 applyStatePatchBuf, mounted, misuse, pendingBlur, nextWindow,
                 submission, dirty, tornDown, pendingChange, combine>>

\* reset() with the default predicate, which every field matches.
Reset(commitThrows) == ResetWhich(Paths, commitThrows)

\* Form.jsx 648-664: clear().
Clear(commitThrows) ==
  /\ Spend
  /\ LET prevFields == fields
         fieldsPatch == ClearPatches(prevFields)
         commit == PromiseState(prevFields, NextFields(prevFields, fieldsPatch),
                                commitThrows)
         nextFields == ResolvedWith(commit.fields)
     IN /\ fields' = commit.fields
        /\ last' = [op |-> "clear", prev |-> prevFields, next |-> commit.fields,
                    commitThrows |-> commitThrows, resolved |-> nextFields,
                    hooks |-> IF commit.settled = "resolved"
                                THEN <<HookCall("onClear", nextFields)>>
                                ELSE <<>>]
  /\ changed' = IF commitThrows THEN changed
                ELSE [p \in Paths |-> IF p \in DOMAIN fields THEN "" ELSE changed[p]]
  /\ UNCHANGED <<registerLive, fieldRegisterBuf, fieldUnregisterBuf,
                 applyStatePatchBuf, mounted, misuse, pendingBlur,
                 pendingValidations, nextWindow, validation, submission,
                 dirty, tornDown, pendingChange, combine>>

\* Form.jsx 398-401: the patch of setValues for one field: the record with
\* the mapped value and its validity reset.
SetValuePatch(fieldState, nextValue) ==
  [fieldState EXCEPT !.value = MapValue(fieldState.fieldPath, nextValue),
                     !.validated = FALSE, !.expected = TRUE, !.errors = <<>>]

\* Form.jsx 394-420: setValues(fieldsPatch).  One applyStatePatch event for
\* every field of the tree that fieldsPatch names, in tree order.
SetValues(fieldsPatch) ==
  /\ Spend
  /\ ~tornDown
  /\ LET flat == GetLeavesWhich(DOMAIN fieldsPatch, fields, 1)
         events == [i \in 1..Len(flat) |->
                      StatePatch(flat[i].fieldPath,
                                 SetValuePatch(flat[i], fieldsPatch[flat[i].fieldPath]),
                                 "validateField")]
     IN /\ InFlight + Len(flat) <= MaxInFlight
        /\ applyStatePatchBuf' = applyStatePatchBuf \o events
  /\ last' = [op |-> "setValues", fieldsPatch |-> fieldsPatch, prev |-> fields]
  /\ changed' = [p \in Paths |->
                   IF p \in DOMAIN fieldsPatch \cap DOMAIN fields
                     THEN MapValue(p, fieldsPatch[p]) ELSE changed[p]]
  /\ UNCHANGED <<fields, registerLive, fieldRegisterBuf, fieldUnregisterBuf,
                 mounted, misuse, pendingBlur, pendingValidations, nextWindow,
                 validation, submission, dirty, tornDown, pendingChange,
                 combine>>

\* The error maps setErrors is given: a message for one field, and a map
\* that clears the errors of a and sets those of b.
FieldsDeltas ==
  { [p \in {"a"} |-> <<"custom">>],
    [p \in Paths |-> IF p = "a" THEN <<>> ELSE <<"custom">>] }

\* Form.jsx 717-725: the transformer of one field named by fieldsDelta;
\* errors is <<>> for no errors.
ErrorsTransformer(errors, fieldState) ==
  [fieldState EXCEPT !.errors = errors, !.touched = (errors # <<>>),
                     !.expected = (errors = <<>>), !.validated = TRUE]

\* Form.jsx 734: R.evolve applies a transformer to the key it is named by
\* where the tree has that key, and leaves the tree as it is elsewhere.
Evolve(fieldsDelta, tree) ==
  [p \in DOMAIN tree |->
     IF p \in DOMAIN fieldsDelta THEN ErrorsTransformer(fieldsDelta[p], tree[p])
     ELSE tree[p]]

\* Form.jsx 703-737: setErrors(fieldsDelta).
SetErrors(fieldsDelta) ==
  /\ Spend
  /\ fields' = PromiseState(fields, Evolve(fieldsDelta, fields), FALSE).fields
  /\ last' = [op |-> "setErrors", fieldsDelta |-> fieldsDelta, prev |-> fields]
  /\ UNCHANGED <<registerLive, fieldRegisterBuf, fieldUnregisterBuf,
                 applyStatePatchBuf, mounted, misuse, pendingBlur,
                 pendingValidations, nextWindow, validation, submission,
                 dirty, tornDown, pendingChange, changed, combine>>

\* recordUtils.resetValidationState and recordUtils.resetValidityState: the
\* record as before its first validation.
ResetValidation(fieldState) ==
  [fieldState EXCEPT !.validated = FALSE, !.expected = TRUE, !.errors = <<>>]

\* Form.jsx 212-248: the rules prop changes (a rule of a path no field of
\* the form has): the validity of every record is reset.
ComponentWillReceiveProps ==
  /\ Spend
  /\ fields' = [p \in DOMAIN fields |-> ResetValidation(fields[p])]
  /\ last' = [op |-> "rulesChange", prev |-> fields]
  /\ UNCHANGED <<registerLive, fieldRegisterBuf, fieldUnregisterBuf,
                 applyStatePatchBuf, mounted, misuse, pendingBlur,
                 pendingValidations, nextWindow, validation, submission,
                 dirty, tornDown, pendingChange, changed, combine>>

\* Form.jsx 171-210: a user of the controller calls applyStatePatch itself
\* with one patch, for a path the tree has or has not.
ApplyStatePatchCall(fieldPath) ==
  /\ Spend
  /\ ApplyStatePatch(<<StatePatch(fieldPath, [focused |-> TRUE], "none")>>, FALSE)
  /\ UNCHANGED <<registerLive, fieldRegisterBuf, fieldUnregisterBuf,
                 applyStatePatchBuf, mounted, misuse, pendingBlur,
                 pendingValidations, nextWindow, validation, submission,
                 dirty, tornDown, pendingChange, changed, combine>>

\* Form.jsx 250-252: the listeners of the emitter are removed; the buffering
\* subscriptions and their timers are left as they are.
ComponentWillUnmount ==
  /\ ~tornDown
  /\ tornDown' = TRUE
  /\ last' = [op |-> "componentWillUnmount"]
  /\ UNCHANGED <<fields, registerLive, fieldRegisterBuf, fieldUnregisterBuf,
                 applyStatePatchBuf, mounted, misuse, pendingBlur,
                 pendingValidations, nextWindow, validation, submission,
                 dirty, pendingChange, changed, combine, opsLeft>>

\* ------------------------------------------------------------ specifications
\* The values the fields of scenario A mount with.
ScenarioValue(fieldPath) == IF fieldPath = "a" THEN "x" ELSE ""

SubmitHooks == {"onSubmitStart", "onSubmitted", "onSubmitFailed", "onSubmitEnd"}

\* The whole controller.
Next ==
  \/ \E p \in Paths, v \in Values, am \in BOOLEAN, veto \in BOOLEAN, vom \in BOOLEAN :
       EmitFieldRegister(p, v, am, veto, vom)
  \/ \E p \in Paths, v \in Values, am \in BOOLEAN : EmitDuplicateRegister(p, v, am)
  \/ CloseRegisterWindow
  \/ \E p \in Paths : EmitFieldUnregister(p)
  \/ CloseUnregisterWindow
  \/ \E p \in Paths : HandleFieldFocus(p)
  \/ \E p \in Paths : HandleFieldBlur(p)
  \/ \E b \in pendingBlur : ResumeFieldBlur(b)
  \/ \E v \in pendingValidations : ResumeValidateField(v)
  \/ \E t \in BOOLEAN : ClosePatchWindow(t)
  \/ \E pred \in SUBSET Paths : ValidateCall(pred)
  \/ \E oi \in BOOLEAN : ValidateReturn(oi)
  \/ SubmitCall
  \/ \E th \in SUBSET SubmitHooks, thenable \in BOOLEAN : SubmitResume(th, thenable)
  \/ \E f \in BOOLEAN, th \in SUBSET SubmitHooks : SettleSubmit(f, th)
  \/ \E p \in Paths, v \in Values, force \in BOOLEAN, forceProps \in BOOLEAN,
         shouldUpdateFields \in BOOLEAN :
       ValidateFieldCall(FieldProps(p, v), force, forceProps, shouldUpdateFields)
  \/ \E p \in Paths, v \in NextValues : HandleFieldChange(p, v)
  \/ \E i \in 1..Len(pendingChange) : ResumeFieldChange(i)
  \/ \E t \in BOOLEAN : Reset(t)
  \/ \E t \in BOOLEAN : Clear(t)
  \/ \E ps \in (SUBSET Paths) \ {{}} :
       \E fp \in [ps -> {"y", " y"}] : SetValues(fp)
  \/ \E fd \in FieldsDeltas : SetErrors(fd)
  \/ ComponentWillReceiveProps
  \/ \E p \in Paths : ApplyStatePatchCall(p)
  \/ ComponentWillUnmount

Spec == Init /\ [][Next]_vars

\* The reconciler under focus and blur: fields mount and unmount, are focused
\* and blurred, and the host may reject a commit.
NextPatch ==
  \/ \E p \in Paths : EmitFieldRegister(p, ScenarioValue(p), FALSE, FALSE, FALSE)
  \/ CloseRegisterWindow
  \/ \E p \in Paths : EmitFieldUnregister(p)
  \/ CloseUnregisterWindow
  \/ \E p \in Paths : HandleFieldFocus(p)
  \/ \E p \in Paths : HandleFieldBlur(p)
  \/ \E b \in pendingBlur : ResumeFieldBlur(b)
  \/ \E t \in BOOLEAN : ClosePatchWindow(t)

SpecPatch == Init /\ [][NextPatch]_vars

\* The options fields register with: none, validation on mount, a veto of
\* beforeRegister, a shared path.
RegisterOptions ==
  { [allowMultiple |-> FALSE, veto |-> FALSE, shouldValidateOnMount |-> FALSE],
    [allowMultiple |-> FALSE, veto |-> FALSE, shouldValidateOnMount |-> TRUE],
    [allowMultiple |-> FALSE, veto |-> TRUE, shouldValidateOnMount |-> FALSE],
    [allowMultiple |-> TRUE, veto |-> FALSE, shouldValidateOnMount |-> FALSE] }

\* Registration and unregistration under these options, two components on
\* one path included.
NextRegister ==
  \/ \E p \in Paths, o \in RegisterOptions :
       EmitFieldRegister(p, ScenarioValue(p), o.allowMultiple, o.veto,
                         o.shouldValidateOnMount)
  \/ \E p \in Paths, am \in BOOLEAN : EmitDuplicateRegister(p, ScenarioValue(p), am)
  \/ CloseRegisterWindow
  \/ \E p \in Paths : EmitFieldUnregister(p)
  \/ CloseUnregisterWindow
  \/ \E v \in pendingValidations : ResumeValidateField(v)
  \/ ClosePatchWindow(FALSE)

SpecRegister == Init /\ [][NextRegister]_vars

\* The values a field may mount with where validity matters: the required
\* field mounts empty or filled.
MountValues(fieldPath) == IF fieldPath \in RequiredPaths THEN Values ELSE {"x"}

\* Form-level validation and submission of a form whose fields mount with
\* valid or invalid values.
NextSubmit ==
  \/ \E p \in Paths, v \in Values :
       v \in MountValues(p) /\ EmitFieldRegister(p, v, FALSE, FALSE, FALSE)
  \/ CloseRegisterWindow
  \/ CloseUnregisterWindow
  \/ \E v \in pendingValidations : ResumeValidateField(v)
  \/ ClosePatchWindow(FALSE)
  \/ \E pred \in SUBSET Paths : ValidateCall(pred)
  \/ \E oi \in BOOLEAN : ValidateReturn(oi)
  \/ SubmitCall
  \/ \E th \in SUBSET SubmitHooks, thenable \in BOOLEAN : SubmitResume(th, thenable)
  \/ \E f \in BOOLEAN, th \in SUBSET SubmitHooks : SettleSubmit(f, th)

SpecSubmit == Init /\ [][NextSubmit]_vars

\* The validator chains of at most MaxChain validators.
RECURSIVE Chains(_)
Chains(n) ==
  IF n = 0 THEN {<<>>}
  ELSE Chains(n - 1) \cup
       { Append(c, v) : c \in { d \in Chains(n - 1) : Len(d) = n - 1 },
                        v \in ValidatorReturns }

\* mapToSingleResult(...validators)(args) on every chain.
InitCombine ==
  /\ InitForm
  /\ combine \in { [NoCombine EXCEPT !.chain = c] : c \in Chains(MaxChain) }
  /\ opsLeft = NoLimit

NextCombine == MapToSingleResultStep

SpecCombine == InitCombine /\ [][NextCombine]_vars

\* The controller is torn down at any moment of the life of a form whose
\* fields mount, unmount, are focused and blurred.
NextTeardown ==
  \/ \E p \in Paths : EmitFieldRegister(p, ScenarioValue(p), FALSE, FALSE, FALSE)
  \/ CloseRegisterWindow
  \/ \E p \in Paths : EmitFieldUnregister(p)
  \/ CloseUnregisterWindow
  \/ \E p \in Paths : HandleFieldFocus(p)
  \/ \E p \in Paths : HandleFieldBlur(p)
  \/ \E b \in pendingBlur : ResumeFieldBlur(b)
  \/ ClosePatchWindow(FALSE)
  \/ ComponentWillUnmount

SpecTeardown == Init /\ [][NextTeardown]_vars

\* validateField called on the fields of scenario A with explicit props,
\* those of the tree or others, with and without shouldUpdateFields.
NextValidateField ==
  \/ \E p \in Paths : EmitFieldRegister(p, ScenarioValue(p), FALSE, FALSE, FALSE)
  \/ CloseRegisterWindow
  \/ CloseUnregisterWindow
  \/ \E p \in Paths, v \in Values, forceProps \in BOOLEAN,
         shouldUpdateFields \in BOOLEAN :
       ValidateFieldCall(FieldProps(p, v), FALSE, forceProps, shouldUpdateFields)
  \/ \E v \in pendingValidations : ResumeValidateField(v)
  \/ ClosePatchWindow(FALSE)

SpecValidateField == Init /\ [][NextValidateField]_vars

\* Change events on the fields of scenario A.
NextChange ==
  \/ \E p \in Paths : EmitFieldRegister(p, ScenarioValue(p), FALSE, FALSE, FALSE)
  \/ CloseRegisterWindow
  \/ CloseUnregisterWindow
  \/ \E p \in Paths, v \in NextValues : HandleFieldChange(p, v)
  \/ \E i \in 1..Len(pendingChange) : ResumeFieldChange(i)
  \/ ClosePatchWindow(FALSE)

SpecChange == Init /\ [][NextChange]_vars

\* The required field of scenario A is edited and the form reset.
NextReset ==
  \/ \E p \in Paths : EmitFieldRegister(p, ScenarioValue(p), FALSE, FALSE, FALSE)
  \/ CloseRegisterWindow
  \/ CloseUnregisterWindow
  \/ \E p \in RequiredPaths, v \in NextValues : HandleFieldChange(p, v)
  \/ \E i \in 1..Len(pendingChange) : ResumeFieldChange(i)
  \/ \E v \in pendingValidations : ResumeValidateField(v)
  \/ ClosePatchWindow(FALSE)
  \/ \E t \in BOOLEAN : Reset(t)
  \/ \E oi \in BOOLEAN : ValidateReturn(oi)

SpecReset == Init /\ [][NextReset]_vars

\* The fields of scenario A are focused, cleared and reset; the host may
\* reject a commit.
NextClearReset ==
  \/ \E p \in Paths : EmitFieldRegister(p, ScenarioValue(p), FALSE, FALSE, FALSE)
  \/ CloseRegisterWindow
  \/ CloseUnregisterWindow
  \/ \E p \in Paths : HandleFieldFocus(p)
  \/ \E v \in pendingValidations : ResumeValidateField(v)
  \/ \E t \in BOOLEAN : ClosePatchWindow(t)
  \/ \E t \in BOOLEAN : Reset(t)
  \/ \E t \in BOOLEAN : Clear(t)
  \/ \E oi \in BOOLEAN : ValidateReturn(oi)

SpecClearReset == Init /\ [][NextClearReset]_vars

\* The patch maps setValues is given: scenario B, a raw value for the field
\* with a mapValue, and both.
FieldsPatches ==
  { [p \in {"a"} |-> "y"], [p \in {"b"} |-> " y"],
    [p \in Paths |-> IF p = "a" THEN "y" ELSE " y"] }

\* setValues() on the fields of scenario A.
NextSetValues ==
  \/ \E p \in Paths : EmitFieldRegister(p, ScenarioValue(p), FALSE, FALSE, FALSE)
  \/ CloseRegisterWindow
  \/ CloseUnregisterWindow
  \/ \E fp \in FieldsPatches : SetValues(fp)
  \/ \E v \in pendingValidations : ResumeValidateField(v)
  \/ ClosePatchWindow(FALSE)

SpecSetValues == Init /\ [][NextSetValues]_vars

\* Every operation of the controller on the fields of scenario A, while
\* field a mounts and unmounts; field b mounts and stays.
NextPaths ==
  \/ \E p \in Paths : EmitFieldRegister(p, ScenarioValue(p), FALSE, FALSE, FALSE)
  \/ CloseRegisterWindow
  \/ EmitFieldUnregister("a")
  \/ CloseUnregisterWindow
  \/ \E p \in Paths : HandleFieldFocus(p)
  \/ \E p \in Paths : HandleFieldChange(p, "y")
  \/ \E i \in 1..Len(pendingChange) : ResumeFieldChange(i)
  \/ \E p \in Paths : HandleFieldBlur(p)
  \/ \E b \in pendingBlur : ResumeFieldBlur(b)
  \/ \E fp \in FieldsPatches : SetValues(fp)
  \/ \E fd \in FieldsDeltas : SetErrors(fd)
  \/ Clear(FALSE)
  \/ Reset(FALSE)
  \/ \E p \in Paths :
       ValidateFieldCall(FieldProps(p, ScenarioValue(p)), FALSE, TRUE, TRUE)
  \/ \E v \in pendingValidations : ResumeValidateField(v)
  \/ ValidateCall(Paths)
  \/ ValidateReturn(FALSE)
  \/ ComponentWillReceiveProps
  \/ \E p \in Paths : ApplyStatePatchCall(p)
  \/ ClosePatchWindow(FALSE)

\* A run of at most MaxOps operations.
InitPaths ==
  /\ InitForm
  /\ combine = NoCombine
  /\ opsLeft = MaxOps

SpecPaths == InitPaths /\ [][NextPaths]_vars

\* The required field of scenario A is edited; reset is called with a
\* predicate that matches it, or no field.  Nothing but reset and its
\* validation gets at the other field.
NextResetWhich ==
  \/ \E p \in Paths : EmitFieldRegister(p, ScenarioValue(p), FALSE, FALSE, FALSE)
  \/ CloseRegisterWindow
  \/ CloseUnregisterWindow
  \/ \E p \in RequiredPaths, v \in NextValues : HandleFieldChange(p, v)
  \/ \E i \in 1..Len(pendingChange) : ResumeFieldChange(i)
  \/ \E v \in pendingValidations : ResumeValidateField(v)
  \/ ClosePatchWindow(FALSE)
  \/ \E pred \in SUBSET RequiredPaths : ResetWhich(pred, FALSE)
  \/ \E oi \in BOOLEAN : ValidateReturn(oi)

SpecResetWhich == Init /\ [][NextResetWhich]_vars

\* The required field of scenario A is edited, one change handler at a
\* time, while validateField is called on it with the props of the tree.
NextStale ==
  \/ \E p \in Paths : EmitFieldRegister(p, ScenarioValue(p), FALSE, FALSE, FALSE)
  \/ CloseRegisterWindow
  \/ CloseUnregisterWindow
  \/ \E p \in RequiredPaths, v \in NextValues :
       pendingChange = <<>> /\ HandleFieldChange(p, v)
  \/ \E i \in 1..Len(pendingChange) : ResumeFieldChange(i)
  \/ \E p \in RequiredPaths :
       ValidateFieldCall(FieldProps(p, ScenarioValue(p)), FALSE, FALSE, TRUE)
  \/ \E v \in pendingValidations : ResumeValidateField(v)
  \/ ClosePatchWindow(FALSE)

SpecStale == Init /\ [][NextStale]_vars

\* setValues() on the fields of scenario A and change events of field a.
NextOrder ==
  \/ \E p \in Paths : EmitFieldRegister(p, ScenarioValue(p), FALSE, FALSE, FALSE)
  \/ CloseRegisterWindow
  \/ CloseUnregisterWindow
  \/ \E fp \in FieldsPatches : SetValues(fp)
  \/ \E v \in NextValues : HandleFieldChange("a", v)
  \/ \E i \in 1..Len(pendingChange) : ResumeFieldChange(i)
  \/ \E v \in pendingValidations : ResumeValidateField(v)
  \/ ClosePatchWindow(FALSE)

SpecOrder == Init /\ [][NextOrder]_vars

\* ================================================================== claims
\* The patches of the batch of the last applyStatePatch call whose path was
\* not in the tree when the batch was applied.
AbsentPatches ==
  { i \in 1..Len(last.batch) : last.batch[i].fieldPath \notin DOMAIN last.prev }

\* A batch without the patches at the indices of drop.
RECURSIVE BatchWithout(_, _, _)
BatchWithout(batch, drop, i) ==
  IF i > Len(batch) THEN <<>>
  ELSE IF i \in drop THEN BatchWithout(batch, drop, i + 1)
  ELSE <<batch[i]>> \o BatchWithout(batch, drop, i + 1)

\* C1: a patch of a batch given to applyStatePatch whose fieldPath is not in
\* the tree when the batch is applied leaves the committed tree as it would
\* be without that patch, raises no error, and its callback is not invoked.
C1_AbsentPatchIsDropped ==
  last.op = "applyStatePatch" =>
    /\ last.next = IF last.commitThrows THEN last.prev
                   ELSE NextFields(last.prev,
                                   BatchWithout(last.batch, AbsentPatches, 1))
    /\ \A c \in 1..Len(last.calls) :
         /\ last.calls[c].index \notin AbsentPatches
         /\ ~last.calls[c].threw

\* The indices of the patches of the last batch that address fieldPath and
\* set key.
Setters(fieldPath, key) ==
  { i \in 1..Len(last.batch) :
      /\ last.batch[i].fieldPath = fieldPath
      /\ key \in DOMAIN last.batch[i].chunk }

Latest(indices) == CHOOSE i \in indices : \A j \in indices : j <= i

\* C2: after a batch is committed, every key of a registered record has the
\* value of the latest patch of the batch that addresses the record and sets
\* the key (so of two patches to one path the later wins on the keys of both
\* and the earlier keeps the keys it alone sets), and a key no patch sets
\* keeps the value it had before the batch.
C2_MergeLeftBias ==
  (last.op = "applyStatePatch" /\ ~last.commitThrows) =>
    /\ DOMAIN last.next = DOMAIN last.prev
    /\ \A p \in DOMAIN last.prev :
         /\ DOMAIN last.next[p] = DOMAIN last.prev[p]
         /\ \A k \in DOMAIN last.prev[p] :
              last.next[p][k] =
                IF Setters(p, k) = {} THEN last.prev[p][k]
                ELSE last.batch[Latest(Setters(p, k))].chunk[k]

\* C2 witness: a committed batch with two patches to one registered path, a
\* key both set to different values and a key only the earlier one sets.
C2_Witness ==
  /\ last.op = "applyStatePatch"
  /\ ~last.commitThrows
  /\ \E i, j \in 1..Len(last.batch) :
       /\ i < j
       /\ last.batch[i].fieldPath = last.batch[j].fieldPath
       /\ last.batch[i].fieldPath \in DOMAIN last.prev
       /\ \E k \in DOMAIN last.batch[i].chunk \cap DOMAIN last.batch[j].chunk :
            last.batch[i].chunk[k] # last.batch[j].chunk[k]
       /\ \E k \in DOMAIN last.batch[i].chunk \ DOMAIN last.batch[j].chunk :
            last.batch[i].chunk[k] # last.prev[last.batch[i].fieldPath][k]

\* The patches of the last batch that carry a callback, in arrival order.
RECURSIVE WithCallback(_, _)
WithCallback(batch, i) ==
  IF i > Len(batch) THEN <<>>
  ELSE IF batch[i].callback = "none" THEN WithCallback(batch, i + 1)
  ELSE <<i>> \o WithCallback(batch, i + 1)

\* C3: after the commit of a batch the callbacks of its patches are invoked
\* in arrival order, each exactly once, each with the committed record at its
\* path and the committed tree; a callback that fails does not keep a later
\* one from being invoked.
C3_CallbacksAllRunOnCommittedTree ==
  (last.op = "applyStatePatch" /\ ~last.commitThrows) =>
    /\ [c \in 1..Len(last.calls) |-> last.calls[c].index]
         = WithCallback(last.batch, 1)
    /\ \A c \in 1..Len(last.calls) :
         /\ last.calls[c].fields = fields
         /\ last.calls[c].record = Path(last.calls[c].fieldPath, fields)

\* C4: when the commit throws, applyStatePatch rejects, invokes no callback
\* and leaves the tree of record as it was before the call.
C4_CommitFailure ==
  (last.op = "applyStatePatch" /\ last.commitThrows) =>
    /\ last.outcome = "rejected"
    /\ last.calls = <<>>
    /\ fields = last.prev

\* C4 witness: the commit of a batch threw that carries a callback and would
\* have changed the tree.
C4_Witness ==
  /\ last.op = "applyStatePatch"
  /\ last.commitThrows
  /\ WithCallback(last.batch, 1) # <<>>
  /\ NextFields(last.prev, last.batch) # last.prev

\* C5: a submit() whose validate() yields false invokes neither the action
\* nor any of onSubmitStart, onSubmitted, onSubmitFailed, onSubmitEnd, and
\* yields no result.
C5_InvalidSubmitAborts ==
  (submission.pc \in {"aborted", "threw", "pending", "ended"} /\ ~submission.valid) =>
    /\ submission.pc = "aborted"
    /\ submission.hooks = <<>>
    /\ submission.result = "undefined"

\* C5 witness: submit() has resumed after validate() found a mounted required
\* field empty.
C5_Witness ==
  /\ submission.pc = "aborted"
  /\ \E p \in DOMAIN fields : p \in RequiredPaths /\ fields[p].value = ""

\* How often a hook was fired by the submit() in flight.
Fired(hook) ==
  Cardinality({ i \in 1..Len(submission.hooks) : submission.hooks[i] = hook })

\* C6: a submit() on a valid form fires onSubmitStart before the action; when
\* the action's pending result fulfils, onSubmitted fires and onSubmitFailed
\* does not; when it rejects, onSubmitFailed fires and onSubmitted does not;
\* either way onSubmitEnd fires exactly once and last, whatever the hooks do.
C6_SubmitHooks ==
  /\ submission.pc \in {"pending", "ended"} =>
       /\ submission.hooks[1] = "onSubmitStart"
       /\ submission.hooks[2] = "action"
  /\ submission.pc = "ended" =>
       /\ submission.settled = "fulfilled" =>
            Fired("onSubmitted") = 1 /\ Fired("onSubmitFailed") = 0
       /\ submission.settled = "rejected" =>
            Fired("onSubmitFailed") = 1 /\ Fired("onSubmitted") = 0
       /\ Fired("onSubmitEnd") = 1
       /\ submission.hooks[Len(submission.hooks)] = "onSubmitEnd"

\* C7: the registrations emitted within one window are delivered together
\* and in order, every one of them is handled, and afterwards every field of
\* the delivery that was not vetoed is in the tree: a registration that fails
\* does not keep the others from being registered.  Stated for deliveries of
\* distinct paths, in forms that never mount two components on one path.
C7_AllRegistered ==
  (/\ last.op = "registerFields"
   /\ ~misuse
   /\ \A i, j \in 1..Len(last.batch) :
        i # j => last.batch[i].fieldPath # last.batch[j].fieldPath) =>
    /\ fieldRegisterBuf = <<>>
    /\ \A i \in 1..Len(last.results) :
         last.results[i].fieldPath = last.batch[i].fieldPath
    /\ Len(last.results) = Len(last.batch)
    /\ \A i \in 1..Len(last.batch) :
         ~last.batch[i].veto => last.batch[i].fieldPath \in DOMAIN fields

\* Nothing is buffered and no handler is suspended.
Quiescent ==
  /\ fieldRegisterBuf = <<>>
  /\ fieldUnregisterBuf = <<>>
  /\ applyStatePatchBuf = <<>>
  /\ pendingBlur = {}
  /\ pendingValidations = {}

\* C8: once every window has closed and nothing is pending, the tree holds a
\* record at a path exactly if a component of that path has emitted
\* fieldRegister (not vetoed) and no fieldUnregister since.  Stated for forms
\* that never mount two components on one path.
C8_RecordIffRegistered ==
  (Quiescent /\ ~misuse) =>
    \A p \in Paths : (p \in DOMAIN fields) <=> (mounted[p] = "yes")

\* The tree the i-th registerField call of the last delivery started from.
TreeBefore(i) == IF i = 1 THEN last.prev ELSE last.results[i - 1].fields

\* C9: registerField for a path that holds a record, without allowMultiple,
\* fails at the call and leaves the tree as it was; beforeRegister, the
\* registered event and the validation on mount are not run for it.
C9_DuplicateRejected ==
  last.op = "registerFields" =>
    \A i \in 1..Len(last.results) :
      (last.batch[i].fieldPath \in DOMAIN TreeBefore(i) /\ ~last.batch[i].allowMultiple) =>
        /\ last.results[i].outcome = "threw"
        /\ last.results[i].fields = TreeBefore(i)
        /\ fields = TreeBefore(i)
        /\ ~last.results[i].beforeRegister
        /\ ~last.results[i].registeredEvent
        /\ ~last.results[i].validateOnMount
        /\ \A v \in last.started :
             v.fieldProps.fieldPath = last.batch[i].fieldPath =>
               \E j \in 1..(i - 1) :
                 /\ last.batch[j].fieldPath = last.batch[i].fieldPath
                 /\ last.batch[j].shouldValidateOnMount

\* C9 witness: a delivery in which a registration that asks for validation on
\* mount was rejected, after another field of the delivery was registered.
C9_Witness ==
  /\ last.op = "registerFields"
  /\ \E i \in 2..Len(last.results) :
       /\ last.results[i].outcome = "threw"
       /\ last.batch[i].shouldValidateOnMount
       /\ last.results[i - 1].outcome = "registered"

\* The rule set's verdict on a record, from the rules themselves.
Valid(fieldProps) ==
  fieldProps.fieldPath \notin RequiredPaths \/ fieldProps.value # ""

\* The paths of a list of records, in order.
PathsOf(records) == [i \in 1..Len(records) |-> records[i].fieldPath]

\* The records of a list that the rule set rejects, in order.
RECURSIVE NotValid(_, _)
NotValid(records, i) ==
  IF i > Len(records) THEN <<>>
  ELSE IF Valid(records[i]) THEN NotValid(records, i + 1)
  ELSE <<records[i].fieldPath>> \o NotValid(records, i + 1)

\* C10: validate(predicate) validates the leaf fields that match predicate and
\* no other, waits for all of them and returns true exactly if all are valid;
\* when it returns false and onInvalid is set, onInvalid is invoked once with
\* the list of the fields that are not valid; when it returns true, never.
C10_Validate ==
  /\ last.op = "validateCall" =>
       { v.fieldProps : v \in { w \in pendingValidations : w.owner = "form" } }
         = { fields[p] : p \in DOMAIN fields \cap last.predicate }
  /\ last.op = "validate" =>
       /\ PathsOf(last.validatedFields) = PathsOf(last.targets)
       /\ last.isFormValid = (\A i \in 1..Len(last.targets) : Valid(last.targets[i]))
       /\ last.onInvalidCalls =
            IF ~last.isFormValid /\ last.hasOnInvalid
              THEN <<InvalidFields(last.validatedFields)>>
              ELSE <<>>
       /\ \A c \in 1..Len(last.onInvalidCalls) :
            PathsOf(last.onInvalidCalls[c]) = NotValid(last.targets, 1)

\* C10 witness: validate() returned false for two fields, one of them valid,
\* and invoked onInvalid.
C10_Witness ==
  /\ last.op = "validate"
  /\ Len(last.targets) = 2
  /\ ~last.isFormValid
  /\ \E i \in 1..2 : Valid(last.targets[i])
  /\ Len(last.onInvalidCalls) = 1
\* What a validator's return value stands for once it is awaited.
RECURSIVE Awaited(_, _)
Awaited(chain, i) ==
  IF i > Len(chain) THEN <<>>
  ELSE chain[i].results \o Awaited(chain, i + 1)

RECURSIVE Concatenated(_, _)
Concatenated(results, i) ==
  IF i > Len(results) THEN <<>>
  ELSE results[i].rejectedRules \o Concatenated(results, i + 1)

\* C14: once every validator of a chain has been invoked, the combined
\* expected is the AND of the validators' expected and the combined
\* rejectedRules is the concatenation of their rejectedRules in declaration
\* order, whether a validator returns its result or a promise of it; every
\* validator of the chain is invoked.
C14_CombinedResult ==
  combine.invoked = Len(combine.chain) =>
    LET results == Awaited(combine.chain, 1)
    IN /\ combine.acc.expected =
            IF \A i \in 1..Len(results) : results[i].expected = "true"
              THEN "true" ELSE "false"
       /\ combine.acc.rejectedRules = Concatenated(results, 1)

\* C16: a submit() whose action returns something that is not a pending
\* result fails, the action having been invoked once, and fires none of
\* onSubmitted, onSubmitFailed, onSubmitEnd; every other submit() that fired
\* onSubmitStart and whose action has settled has fired onSubmitEnd.
C16_ActionContract ==
  /\ (submission.pc = "threw" /\ Fired("action") > 0) =>
       /\ submission.result = "rejected"
       /\ submission.hooks = <<"onSubmitStart", "action">>
  /\ (submission.pc = "ended" /\ Fired("onSubmitStart") > 0) =>
       /\ Fired("action") = 1
       /\ Fired("onSubmitEnd") = 1

\* C13: after componentWillUnmount no handler is invoked: the events that
\* were buffered when the controller was torn down are not delivered, to the
\* registration, the unregistration or the patch handler, and nothing throws.
C13_NoDeliveryAfterTeardown ==
  tornDown => last.op # "lateDelivery"

\* A tree after one patch: the chunk laid over the record at its path, when
\* the path holds a record.
Patched(tree, patch) ==
  IF patch.fieldPath \in DOMAIN tree
    THEN [tree EXCEPT ![patch.fieldPath] =
            [k \in DOMAIN @ \cup DOMAIN patch.chunk |->
               IF k \in DOMAIN patch.chunk THEN patch.chunk[k] ELSE @[k]]]
    ELSE tree

\* A tree after the patches of a batch, each applied once, in order.
RECURSIVE PatchedInOrder(_, _)
PatchedInOrder(tree, batch) ==
  IF batch = <<>> THEN tree
  ELSE PatchedInOrder(Patched(tree, Head(batch)), Tail(batch))

IsPrefix(s, t) == Len(s) <= Len(t) /\ SubSeq(t, 1, Len(s)) = s

\* The step closes the window of the named stream.
Closes(window) == nextWindow = window /\ nextWindow' # window

\* C19: the close of an applyStatePatch window hands all the events emitted
\* in the window, in order, to one applyStatePatch call, whose single commit
\* is the tree with each of them applied once in that order; a window without
\* events (applyStatePatch or fieldUnregister) calls no handler and commits
\* nothing; no other step takes an event out of the window or commits one,
\* so the windows are committed in the order they close.
C19_OneCommitPerWindow ==
  [][ /\ Closes("applyStatePatch") =>
           /\ applyStatePatchBuf' = <<>>
           /\ IF applyStatePatchBuf = <<>>
                THEN last'.op = "none" /\ fields' = fields
                ELSE /\ last'.op = "applyStatePatch"
                     /\ last'.batch = applyStatePatchBuf
                     /\ fields' = IF last'.commitThrows THEN fields
                                  ELSE PatchedInOrder(fields, applyStatePatchBuf)
      /\ ~Closes("applyStatePatch") =>
           /\ last'.op # "applyStatePatch"
           /\ IsPrefix(applyStatePatchBuf, applyStatePatchBuf')
      /\ (Closes("fieldUnregister") /\ fieldUnregisterBuf = <<>>) =>
           last'.op = "none" /\ fields' = fields
    ]_vars

\* C19 witness: one commit merged a window of patches to two fields, after an
\* earlier window had been committed.
C19_Witness ==
  /\ last.op = "applyStatePatch"
  /\ ~last.commitThrows
  /\ \E i, j \in 1..Len(last.batch) :
       /\ last.batch[i].fieldPath # last.batch[j].fieldPath
       /\ {last.batch[i].fieldPath, last.batch[j].fieldPath} \subseteq DOMAIN last.prev
  /\ last.next # last.prev
  /\ \E p \in DOMAIN last.prev : last.prev[p].touched

\* C18: when a validateField call finishes, the tree is as it was: the call
\* returns the validation patch merged over the props it validated, emits one
\* applyStatePatch event for the field into the open window if
\* shouldUpdateFields is set and none otherwise; the patch reaches the tree
\* only at the close of the window.
C18_ValidateFieldEmitsOnly ==
  [][ \A v \in pendingValidations : v \notin pendingValidations' =>
        LET patch == ValidationChunk(v.fieldProps, v.force)
        IN /\ fields' = fields
           /\ last'.op = "validateField"
           /\ DOMAIN last'.returned = DOMAIN v.fieldProps
           /\ \A k \in DOMAIN v.fieldProps :
                last'.returned[k] =
                  IF k \in DOMAIN patch THEN patch[k] ELSE v.fieldProps[k]
           /\ applyStatePatchBuf' =
                IF v.shouldUpdateFields
                  THEN Append(applyStatePatchBuf,
                              [fieldPath |-> v.fieldProps.fieldPath,
                               chunk |-> patch, callback |-> "none"])
                  ELSE applyStatePatchBuf
    ]_vars

\* C18 witness: a call without shouldUpdateFields returned a record found
\* invalid while the tree holds the field's record not validated, and
\* nothing is in the window.
C18_Witness ==
  /\ last.op = "validateField"
  /\ ~last.args.shouldUpdateFields
  /\ ~last.returned.expected
  /\ last.returned.validated
  /\ last.returned.fieldPath \in DOMAIN fields
  /\ ~fields[last.returned.fieldPath].validated
  /\ applyStatePatchBuf = <<>>

\* C11: once setValues(fieldsPatch) has returned, serialize() yields, for
\* every field fieldsPatch names, its raw value mapped through the field's
\* mapValue, and for every other field the value it had.
C11_SetValuesThenSerialize ==
  last.op = "setValues" =>
    SerializeForm =
      [p \in DOMAIN last.prev |->
         IF p \in DOMAIN last.fieldsPatch
           THEN MapValue(p, last.fieldsPatch[p])
           ELSE last.prev[p].value]

C15_HooksGetCommittedTree ==
  /\ (last.op = "applyStatePatch" /\ last.outcome = "resolved") =>
       last.resolved = <<fields>>
  /\ (last.op \in {"clear", "reset"} /\ ~last.commitThrows) =>
       /\ fields = last.next
       /\ last.hooks =
            <<[hook |-> IF last.op = "clear" THEN "onClear" ELSE "onReset",
               fields |-> <<fields>>, form |-> "this"]>>

C20_DirtyUntilReset ==
  /\ dirty = FALSE
  /\ [][ /\ last'.op = "fieldChanged" => dirty'
         /\ (dirty /\ last'.op # "reset") => dirty'
         /\ (last'.op = "reset" /\ ~last'.commitThrows) => ~dirty'
       ]_vars

\* The paths of the registrations of a fieldRegister batch.
RegisteredPaths(batch) == { batch[i].fieldPath : i \in 1..Len(batch) }

\* The paths of a fieldUnregister batch.
UnregisteredPaths(batch) == { batch[i] : i \in 1..Len(batch) }

\* C21: the set of paths of the committed tree changes only when the
\* fieldRegister window is delivered to registerField, which adds paths of its
\* batch, and when the fieldUnregister window is delivered to
\* unregisterFields, which removes exactly the paths of its batch and leaves
\* every other record as it was.  No other step adds or removes a path:
\* applyStatePatch (a direct call or the delivery of a window), setValues,
\* setErrors, clear, reset, validateField, validate, the focus, change and
\* blur handlers, a change of the rules.
C21_PathsChangeByRegistrationOnly ==
  [][LET added == DOMAIN fields' \ DOMAIN fields
         removed == DOMAIN fields \ DOMAIN fields'
     IN /\ added # {} =>
             /\ Closes("fieldRegister")
             /\ added \subseteq RegisteredPaths(fieldRegisterBuf)
        /\ removed # {} => Closes("fieldUnregister")
        /\ Closes("fieldUnregister") =>
             /\ removed = DOMAIN fields \cap UnregisteredPaths(fieldUnregisterBuf)
             /\ \A p \in DOMAIN fields' : fields'[p] = fields[p]]_vars

\* A window of patches was delivered that held a patch of setValues for a
\* field unregistered since; the tree kept its paths, another field among
\* them.
C21_Witness ==
  /\ last.op = "applyStatePatch"
  /\ \E i \in 1..Len(last.batch) :
       /\ last.batch[i].callback = "validateField"
       /\ last.batch[i].fieldPath \notin DOMAIN last.prev
  /\ DOMAIN last.next = DOMAIN last.prev
  /\ DOMAIN last.next # {}

\* C22: reset(predicate) changes and validates again only the fields that
\* match predicate; the record of every other field (value, validated,
\* expected, errors, touched) is what it was before the call.  Where reset is
\* only called with predicates that match no field outside RequiredPaths and
\* no other operation gets at those fields, their records stay the ones
\* they mounted with.
C22_ResetLeavesOthers ==
  \A p \in DOMAIN fields \ RequiredPaths :
    fields[p] = FieldProps(p, ScenarioValue(p))

\* C23: onFirstChange is invoked at most once while the form goes from
\* pristine to dirty: a change handler that finishes invokes it only when
\* the form is still pristine, however many changes were emitted before the
\* first handler finished.
C23_FirstChangeOnce ==
  [][(last'.op = "fieldChanged" /\ last'.onFirstChange) => ~dirty]_vars

\* Nothing is buffered and no handler or validation is suspended.
Settled == Quiescent /\ pendingChange = <<>>

\* C24: once every validation has completed and every window has closed, the
\* validity a validated record holds (expected, errors) is the one of the value
\* it holds: a validation of an older value that completes after the
\* validation of a newer one does not leave its result in the record.
C24_ValidityOfCommittedValue ==
  Settled =>
    \A p \in DOMAIN fields :
      fields[p].validated =>
        /\ fields[p].expected = RuleResult(fields[p]).expected
        /\ fields[p].errors = RuleResult(fields[p]).rejectedRules

\* C25: the operations that set the value of a field take effect in the
\* order they were issued, whether they go through the window (setValues) or
\* not (a change event): once the applyStatePatch window has closed, the
\* value of a field is the one its latest change event or setValues call
\* gave it.
C25_LatestValueWins ==
  applyStatePatchBuf = <<>> =>
    \A p \in DOMAIN fields :
      changed[p] # "none" => fields[p].value = changed[p]
====
